---- MODULE Spec2Model ----
(***************************************************************************)
(* Model of build_up_graph.py: a single-shot importer that parses a        *)
(* line-per-record file, aggregates entities and relations, and loads them *)
(* into a graph store in fixed-size batches.                               *)
(*                                                                         *)
(* Strings that the program inspects character by character (names,        *)
(* symptoms, drug details) are sequences of one-character strings.         *)
(* Labels are written in English:                                          *)
(*   Disease = 疾病, Drug = 药品, Food = 食物, Check = 检查项目,              *)
(*   Department = 科目, Symptom = 疾病症状, Treatment = 治疗方法,             *)
(*   Manufacturer = 药品商; produces = 生产, accompanies = 疾病并发疾病, ...  *)
(***************************************************************************)
EXTENDS Integers, Sequences, FiniteSets, TLC

\* ---------------------------------------------------------------- bounds
MaxLines == 2

MaxBatchSize == 2

MaxSeed == 1

\* ------------------------------------------------------- generic helpers
Min(a, b) == IF a < b THEN a ELSE b

Range(s) == {s[i] : i \in 1..Len(s)}

\* Python slice data[i : j] with 0 <= i, on a sequence
Slice(data, i, j) == SubSeq(data, i + 1, Min(j, Len(data)))

RECURSIVE Flatten(_)
Flatten(ss) == IF ss = <<>> THEN <<>> ELSE Head(ss) \o Flatten(Tail(ss))

Reverse(s) == [i \in 1..Len(s) |-> s[Len(s) + 1 - i]]

\* dict.get(key, default)
Get(d, k, default) == IF k \in DOMAIN d THEN d[k] ELSE default

\* ------------------------------------------------------------ categories
\* keys of all_entity, in the dict's insertion order
Labels == <<"Disease", "Drug", "Food", "Check", "Department", "Symptom", "Treatment", "Manufacturer">>

LabelSet == Range(Labels)

AttrKeys == {"desc", "cause", "prevent", "cure_lasttime", "cured_prob", "easy_get"}

\* ------------------------------------------------------- string cleaning
\* sy.endswith('...')
EndsWithEllipsis(sy) ==
    /\ Len(sy) >= 3
    /\ \A i \in (Len(sy) - 2)..Len(sy) : sy[i] = "."

\* sy[:-3] if sy.endswith('...') else sy
CleanSymptom(sy) == IF EndsWithEllipsis(sy) THEN SubSeq(sy, 1, Len(sy) - 3) ELSE sy

\* detail.split(',')
RECURSIVE SplitComma(_)
SplitComma(detail) ==
    IF \A i \in 1..Len(detail) : detail[i] # ","
    THEN <<detail>>
    ELSE LET k == CHOOSE i \in 1..Len(detail) :
                      detail[i] = "," /\ \A j \in 1..(i - 1) : detail[j] # ","
         IN <<SubSeq(detail, 1, k - 1)>> \o SplitComma(SubSeq(detail, k + 1, Len(detail)))

HasComma(detail) == \E i \in 1..Len(detail) : detail[i] = ","

\* [f(x) for x in s]: the items of s that satisfy the label test, second component
ItemsOf(pairs, label) ==
    LET sel == SelectSeq(pairs, LAMBDA p : p[1] = label)
    IN [i \in 1..Len(sel) |-> sel[i][2]]

\* ---------------------------------------------------------- input lines
\* One line of data/medical_new.json as the parse loop sees it:
\*   len     = len(data_str)
\*   eval    = what eval(data_str[:-1]) does: "raise", or the kind of value
\*             it returns ("dict", or "list" for a value that is no mapping)
\*   fields  = the items of the dict
\*   nonlist = keys of list-valued fields whose value is a non-zero integer
SampleLine(n) ==
    CASE n = 1 -> [len |-> 2, eval |-> "dict", nonlist |-> {},
                   fields |-> [name |-> <<"Z">>, common_drug |-> << <<"A">> >>]]
      [] n = 2 -> [len |-> 5, eval |-> "raise", nonlist |-> {}, fields |-> <<>>]
      [] n = 3 -> [len |-> 5, eval |-> "list", nonlist |-> {}, fields |-> <<>>]
      [] n = 4 -> [len |-> 9, eval |-> "dict", nonlist |-> {"check"},
                   fields |-> [name |-> <<"F">>, common_drug |-> << <<"A">> >>]]
      [] n = 5 -> [len |-> 9, eval |-> "dict", nonlist |-> {},
                   fields |-> [name |-> <<"F">>, desc |-> <<"x">>,
                               common_drug |-> << <<"A">> >>,
                               acompany |-> << <<"C">> >>,
                               drug_detail |-> << <<"P", ",", "M">>, <<"b", "a", "d">>,
                                                  <<"a", ",", "b", ",", "c">> >>]]
      [] n = 6 -> [len |-> 9, eval |-> "dict", nonlist |-> {},
                   fields |-> [name |-> <<"F">>, desc |-> <<"y">>, cause |-> <<"z">>,
                               common_drug |-> << <<"A">> >>,
                               symptom |-> << <<"s", ".", ".", ".">>, <<"s">> >>]]
      [] n = 7 -> [len |-> 9, eval |-> "dict", nonlist |-> {},
                   fields |-> [name |-> <<"C">>, desc |-> <<"x">>,
                               recommand_drug |-> << <<"A">> >>,
                               cure_department |-> << <<"i">>, <<"s">>, <<"n">> >>,
                               cure_way |-> << [islist |-> TRUE, l |-> << <<"o", "p">> >>],
                                               [islist |-> FALSE, s |-> <<"x">>] >>]]
      [] n = 8 -> [len |-> 9, eval |-> "dict", nonlist |-> {},
                   fields |-> [do_eat |-> << <<"r">> >>, recommand_eat |-> << <<"r">> >>,
                               not_eat |-> << <<"r">>, <<"q">> >>, check |-> << <<"b">> >>]]

SampleIds == 1..8

\* ------------------------------------------------------- record parsing
\* the dict appended to all_entity["疾病"]
DiseaseRecord(data) ==
    [name          |-> Get(data.fields, "name", <<>>),
     desc          |-> Get(data.fields, "desc", <<>>),
     cause         |-> Get(data.fields, "cause", <<>>),
     prevent       |-> Get(data.fields, "prevent", <<>>),
     cure_lasttime |-> Get(data.fields, "cure_lasttime", <<>>),
     cured_prob    |-> Get(data.fields, "cured_prob", <<>>),
     easy_get      |-> Get(data.fields, "easy_get", <<>>)]

\* the list-valued fields each extraction step reads
StepKeys(n) ==
    CASE n = 1 -> {"common_drug", "recommand_drug"}
      [] n = 2 -> {"do_eat", "recommand_eat", "not_eat"}
      [] n = 3 -> {"check"}
      [] n = 4 -> {"cure_department"}
      [] n = 5 -> {"symptom"}
      [] n = 6 -> {"cure_way"}
      [] n = 7 -> {"acompany"}
      [] n = 8 -> {"drug_detail"}

\* if isinstance(w, list): w = w[0]
ReduceCureWay(w) == IF w.islist THEN w.l[1] ELSE w.s

\* clean_cure_way
CleanCureWay(cure_way) ==
    SelectSeq([i \in 1..Len(cure_way) |-> ReduceCureWay(cure_way[i])],
              LAMBDA w : Len(w) >= 2)

\* the details that split on ',' into exactly two parts, as <<p, d>> = <<lis[0], lis[1]>>
AcceptedDetails(drug_detail) ==
    LET ok == SelectSeq(drug_detail, LAMBDA detail : HasComma(detail) /\ Len(SplitComma(detail)) = 2)
    IN [i \in 1..Len(ok) |-> SplitComma(ok[i])]

\* the uncaught exception step n raises on this record, or "none"
StepRaises(data, n) ==
    IF StepKeys(n) \cap data.nonlist # {} THEN "TypeError"
    ELSE IF n = 6 /\ \E i \in 1..Len(Get(data.fields, "cure_way", <<>>)) :
                        LET w == Get(data.fields, "cure_way", <<>>)[i]
                        IN w.islist /\ w.l = <<>>
         THEN "IndexError"
         ELSE "none"

\* what step n appends to all_entity, as <<label, item>> in append order
StepEntities(data, n) ==
    LET f == data.fields
        Tag(label, s) == [i \in 1..Len(s) |-> <<label, s[i]>>]
    IN CASE n = 1 -> Tag("Drug", Get(f, "common_drug", <<>>) \o Get(f, "recommand_drug", <<>>))
         [] n = 2 -> Tag("Food", (Get(f, "do_eat", <<>>) \o Get(f, "recommand_eat", <<>>))
                                  \o Get(f, "not_eat", <<>>))
         [] n = 3 -> Tag("Check", Get(f, "check", <<>>))
         [] n = 4 -> Tag("Department", Get(f, "cure_department", <<>>))
         [] n = 5 -> LET symptom == Get(f, "symptom", <<>>)
                     IN Tag("Symptom", [i \in 1..Len(symptom) |-> CleanSymptom(symptom[i])])
         [] n = 6 -> Tag("Treatment", CleanCureWay(Get(f, "cure_way", <<>>)))
         [] n = 7 -> <<>>
         [] n = 8 -> LET acc == AcceptedDetails(Get(f, "drug_detail", <<>>))
                     IN Flatten([i \in 1..Len(acc) |->
                                    << <<"Manufacturer", acc[i][2]>>, <<"Drug", acc[i][1]>> >>])

\* what step n appends to relationship
StepRelations(data, n) ==
    LET f == data.fields
        disease_name == Get(f, "name", <<>>)
        Rel(label, type2, s) == [i \in 1..Len(s) |-> <<"Disease", disease_name, label, type2, s[i]>>]
    IN CASE n = 1 -> Rel("uses_drug", "Drug", Get(f, "common_drug", <<>>) \o Get(f, "recommand_drug", <<>>))
         [] n = 2 -> Rel("do_eat", "Food", Get(f, "do_eat", <<>>) \o Get(f, "recommand_eat", <<>>))
                     \o Rel("not_eat", "Food", Get(f, "not_eat", <<>>))
         [] n = 3 -> Rel("needs_check", "Check", Get(f, "check", <<>>))
         [] n = 4 -> LET cure_department == Get(f, "cure_department", <<>>)
                     IN IF cure_department # <<>>
                        THEN Rel("belongs_to", "Department", <<cure_department[Len(cure_department)]>>)
                        ELSE <<>>
         [] n = 5 -> LET symptom == Get(f, "symptom", <<>>)
                     IN Rel("has_symptom", "Symptom", [i \in 1..Len(symptom) |-> CleanSymptom(symptom[i])])
         [] n = 6 -> Rel("cure_way", "Treatment", CleanCureWay(Get(f, "cure_way", <<>>)))
         [] n = 7 -> Rel("accompanies", "Disease", Get(f, "acompany", <<>>))
         [] n = 8 -> LET acc == AcceptedDetails(Get(f, "drug_detail", <<>>))
                     IN [i \in 1..Len(acc) |-> <<"Manufacturer", acc[i][2], "produces", "Drug", acc[i][1]>>]

\* the first step that raises on this record, 9 when none does
FirstRaise(data) ==
    IF \E n \in 1..8 : StepRaises(data, n) # "none"
    THEN CHOOSE n \in 1..8 : StepRaises(data, n) # "none" /\ \A m \in 1..(n - 1) : StepRaises(data, m) = "none"
    ELSE 9

\* everything one loop iteration appends before it ends or raises
RecordEntities(data) ==
    << <<"Disease", DiseaseRecord(data)>> >>
    \o Flatten([n \in 1..(FirstRaise(data) - 1) |-> StepEntities(data, n)])

RecordRelations(data) == Flatten([n \in 1..(FirstRaise(data) - 1) |-> StepRelations(data, n)])

\* how one iteration of the parse loop ends on a line
LineOutcome(line) ==
    IF line.len < 3 THEN "skip"
    ELSE IF line.eval = "raise" THEN "skip"
    ELSE IF line.eval # "dict" THEN "AttributeError"
    ELSE IF FirstRaise(line) <= 8 THEN StepRaises(line, FirstRaise(line))
    ELSE "ok"

\* ---------------------------------------------------------- aggregation
\* the distinct items of v, in order of first occurrence
RECURSIVE Unique(_)
Unique(v) ==
    IF v = <<>> THEN <<>>
    ELSE LET r == Unique(SubSeq(v, 1, Len(v) - 1))
         IN IF v[Len(v)] \in Range(r) THEN r ELSE Append(r, v[Len(v)])

\* list(v): every item kept, duplicates included
ListOfSet_keepall(v, seed) == v

\* list(set(v)): the distinct items of v in the iteration order of the set,
\* which the language leaves open; the order is one of a family indexed by
\* the process's hash seed (rotations of the first-occurrence order and their
\* reversals).
ListOfSet(v, seed) ==
    LET u == Unique(v)
        n == Len(u)
        rot == [i \in 1..n |-> u[((i - 1 + (seed \div 2)) % n) + 1]]
    IN IF seed % 2 = 0 THEN rot ELSE Reverse(rot)

\* key = (type1, relation, type1): the source category taken for the target
RelKey_type1twice(r) == <<r[1], r[3], r[1]>>

\* key = (type1, relation, type2)
RelKey(r) == <<r[1], r[3], r[4]>>

\* {"n1": name1, "n2": name2}
RelPair(r) == [n1 |-> r[2], n2 |-> r[5]]

\* the keys of grouped_rels, in insertion order
GroupKeys(all_relationship) ==
    Unique([i \in 1..Len(all_relationship) |-> RelKey(all_relationship[i])])

\* grouped_rels[key]
GroupOf(all_relationship, key) ==
    LET sel == SelectSeq(all_relationship, LAMBDA r : RelKey(r) = key)
    IN [i \in 1..Len(sel) |-> RelPair(sel[i])]

\* ---------------------------------------------------------------- store
\* nodes the pattern (n:label {名称: name}) matches
MatchNodes(ns, label, name) == {i \in 1..Len(ns) : ns[i].label = label /\ ns[i].name = name}

\* CREATE (n:label {名称: name}): a node is added whether or not one exists
MergeNode_create(ns, label, name) == Append(ns, [label |-> label, name |-> name, attrs |-> <<>>])

\* MERGE (n:label {名称: name})
MergeNode(ns, label, name) ==
    IF MatchNodes(ns, label, name) # {} THEN ns
    ELSE Append(ns, [label |-> label, name |-> name, attrs |-> <<>>])

\* UNWIND $batch AS name  MERGE (n:label {名称: name})
RECURSIVE RunEntityQuery(_, _, _)
RunEntityQuery(ns, label, batch) ==
    IF batch = <<>> THEN ns
    ELSE RunEntityQuery(MergeNode(ns, label, Head(batch)), label, Tail(batch))

\* ON CREATE SET: the attributes are written only to a node that has none yet
SetAttrs_oncreate(ns, row) ==
    [i \in 1..Len(ns) |->
        IF i \in MatchNodes(ns, "Disease", row.name) /\ DOMAIN ns[i].attrs = {}
        THEN [ns[i] EXCEPT !.attrs = [a \in AttrKeys |-> row[a]]]
        ELSE ns[i]]

\* SET n += {疾病简介: row.疾病简介, ...} on the nodes the MERGE bound
SetAttrs(ns, row) ==
    [i \in 1..Len(ns) |->
        IF i \in MatchNodes(ns, "Disease", row.name)
        THEN [ns[i] EXCEPT !.attrs = [a \in (DOMAIN @) \cup AttrKeys |->
                                         IF a \in AttrKeys THEN row[a] ELSE @[a]]]
        ELSE ns[i]]

\* UNWIND $batch AS row  MERGE (n:疾病 {名称: row.名称})  SET n += {...}
RECURSIVE RunDiseaseQuery(_, _)
RunDiseaseQuery(ns, batch) ==
    IF batch = <<>> THEN ns
    ELSE RunDiseaseQuery(SetAttrs(MergeNode(ns, "Disease", Head(batch).name), Head(batch)),
                         Tail(batch))

\* MERGE (a)-[r:rel_type]->(b) for one bound pair (a, b)
MergeEdge(es, e) == IF e \in Range(es) THEN es ELSE Append(es, e)

RECURSIVE MergeEdges(_, _, _)
MergeEdges(es, rel_type, bound) ==
    IF bound = {} THEN es
    ELSE LET ab == CHOOSE x \in bound : \A y \in bound :
                       x[1] < y[1] \/ (x[1] = y[1] /\ x[2] <= y[2])
         IN MergeEdges(MergeEdge(es, [src |-> ab[1], rel |-> rel_type, dst |-> ab[2]]),
                       rel_type, bound \ {ab})

\* UNWIND $batch AS row  MATCH (a:type1 {名称: row.n1})  MATCH (b:type2 {名称: row.n2})
\* MERGE (a)-[r:rel_type]->(b)
RECURSIVE RunRelationQuery(_, _, _, _)
RunRelationQuery(es, ns, key, batch) ==
    IF batch = <<>> THEN es
    ELSE LET row == Head(batch)
             bound == MatchNodes(ns, key[1], row.n1) \X MatchNodes(ns, key[3], row.n2)
         IN RunRelationQuery(MergeEdges(es, key[2], bound), ns, key, Tail(batch))

\* what an earlier run may have left in the store
Leftover ==
    [nodes |-> << [label |-> "Drug", name |-> <<"A">>, attrs |-> <<>>],
                  [label |-> "Drug", name |-> <<"A">>, attrs |-> <<>>],
                  [label |-> "Disease", name |-> <<"F">>, attrs |-> <<>>] >>,
     edges |-> << [src |-> 3, rel |-> "uses_drug", dst |-> 1],
                  [src |-> 3, rel |-> "uses_drug", dst |-> 1] >>]

\* ---------------------------------------------------------------- state
\* pc            where the main program is: "clear" (line 144), "parse" (158-231),
\*               "index" (243), "entity" (248-252), "group" (87-91),
\*               "relation" (95-103), "done" (257), "aborted" (uncaught exception)
\* exc           the uncaught exception that ended the run, "none" otherwise
\* hashseed      the process's hash seed, which fixes the iteration order of sets
\* BATCH_SIZE    the batch width (line 9), drawn from 1..MaxBatchSize
\* all_data      the lines of data/medical_new.json (149)
\* lineno        position of the parse loop in all_data (158)
\* all_entity    category -> list of names, or of attribute records for Disease (151)
\* relationship  list of (type1, name1, relation, type2, name2) (156)
\* grouped_keys  keys of grouped_rels in insertion order; grouped_rels as in line 87
\* warned        create_indexes has printed a warning (26)
\* job, off      position of the current loop over categories / groups, and the
\*               offset i of batch_run's range loop (40)
\* nodes, edges  content of the graph store
\* calls         the statements submitted through graph.run / client.run, in order
VARIABLES pc, exc, hashseed, BATCH_SIZE, all_data, lineno, all_entity, relationship,
          grouped_keys, grouped_rels, warned, job, off, nodes, edges, calls

vars == <<pc, exc, hashseed, BATCH_SIZE, all_data, lineno, all_entity, relationship,
          grouped_keys, grouped_rels, warned, job, off, nodes, edges, calls>>

\* batch = data[i: i + BATCH_SIZE - 1]: the slice one item short
Batch_short(data, i) == Slice(data, i, i + BATCH_SIZE - 1)

\* batch = data[i: i + BATCH_SIZE]
Batch(data, i) == Slice(data, i, i + BATCH_SIZE)

\* a handler around graph.run in batch_run that goes on to the next batch
batch_run_continue == "continue"

\* batch_run has no handler around graph.run: a failed statement ends the run
batch_run_on_error == "raise"

\* no handler around graph.run in create_indexes
create_indexes_raise == "raise"

\* create_indexes catches the exception of graph.run and prints a warning
create_indexes_on_error == "warn"

Init ==
    /\ pc = "clear"
    /\ exc = "none"
    /\ hashseed \in 0..MaxSeed
    /\ BATCH_SIZE \in 1..MaxBatchSize
    /\ \E n \in 0..MaxLines : \E f \in [1..n -> SampleIds] :
           all_data = [i \in 1..n |-> SampleLine(f[i])]
    /\ lineno = 1
    /\ all_entity = [c \in LabelSet |-> <<>>]
    /\ relationship = <<>>
    /\ grouped_keys = <<>>
    /\ grouped_rels = <<>>
    /\ warned = FALSE
    /\ job = 1
    /\ off = 0
    /\ \E old \in {[nodes |-> <<>>, edges |-> <<>>], Leftover} :
           nodes = old.nodes /\ edges = old.edges
    /\ calls = <<>>

\* client.run("MATCH (n) DETACH DELETE (n)")
ClearDatabase ==
    /\ pc = "clear"
    /\ \E ok \in BOOLEAN :
          /\ calls' = Append(calls, [kind |-> "clear", ok |-> ok])
          /\ IF ok
             THEN nodes' = <<>> /\ edges' = <<>> /\ pc' = "parse" /\ exc' = exc
             ELSE pc' = "aborted" /\ exc' = "StoreError" /\ UNCHANGED <<nodes, edges>>
    /\ UNCHANGED <<hashseed, BATCH_SIZE, all_data, lineno, all_entity, relationship,
                   grouped_keys, grouped_rels, warned, job, off>>

\* one iteration of: for data_str in all_data
ParseLine ==
    /\ pc = "parse"
    /\ lineno <= Len(all_data)
    /\ LET line == all_data[lineno]
           out == LineOutcome(line)
       IN /\ IF out \in {"skip", "AttributeError"}
             THEN UNCHANGED <<all_entity, relationship>>
             ELSE /\ all_entity' = [c \in LabelSet |->
                                       all_entity[c] \o ItemsOf(RecordEntities(line), c)]
                  /\ relationship' = relationship \o RecordRelations(line)
          /\ IF out \in {"skip", "ok"}
             THEN lineno' = lineno + 1 /\ UNCHANGED <<pc, exc>>
             ELSE pc' = "aborted" /\ exc' = out /\ lineno' = lineno
    /\ UNCHANGED <<hashseed, BATCH_SIZE, all_data, grouped_keys, grouped_rels, warned,
                   job, off, nodes, edges, calls>>

\* relationship = list(set(relationship)); all_entity[k] = list(set(v)) for k != "疾病"
Deduplicate ==
    /\ pc = "parse"
    /\ lineno > Len(all_data)
    /\ relationship' = ListOfSet(relationship, hashseed)
    /\ all_entity' = [c \in LabelSet |->
                         IF c # "Disease" THEN ListOfSet(all_entity[c], hashseed)
                         ELSE all_entity[c]]
    /\ pc' = "index"
    /\ job' = 1
    /\ UNCHANGED <<exc, hashseed, BATCH_SIZE, all_data, lineno, grouped_keys, grouped_rels,
                   warned, off, nodes, edges, calls>>

\* one iteration of create_indexes: CREATE CONSTRAINT IF NOT EXISTS FOR (n:label) ...
CreateIndex ==
    /\ pc = "index"
    /\ calls' = Append(calls, [kind |-> "constraint", target |-> Labels[job]])
    /\ \E ok \in BOOLEAN :
          IF ok \/ create_indexes_on_error = "warn"
          THEN /\ warned' = (warned \/ ~ok)
               /\ IF job < Len(Labels)
                  THEN job' = job + 1 /\ pc' = pc
                  ELSE job' = 1 /\ pc' = "entity"
               /\ exc' = exc
          ELSE pc' = "aborted" /\ exc' = "StoreError" /\ UNCHANGED <<warned, job>>
    /\ UNCHANGED <<hashseed, BATCH_SIZE, all_data, lineno, all_entity, relationship,
                   grouped_keys, grouped_rels, off, nodes, edges>>

\* one graph.run of batch_run, called by import_entity_batch / import_disease_data_batch
ImportEntityBatch ==
    /\ pc = "entity"
    /\ LET label == Labels[job]
           data == all_entity[label]
       IN /\ off < Len(data)
          /\ \E ok \in BOOLEAN :
                /\ calls' = Append(calls, [kind |-> "entity", target |-> label,
                                           batch |-> Batch(data, off), ok |-> ok])
                /\ nodes' = IF ~ok THEN nodes
                            ELSE IF label = "Disease" THEN RunDiseaseQuery(nodes, Batch(data, off))
                            ELSE RunEntityQuery(nodes, label, Batch(data, off))
                /\ IF ok \/ batch_run_on_error # "raise"
                   THEN off' = off + BATCH_SIZE /\ UNCHANGED <<pc, exc>>
                   ELSE pc' = "aborted" /\ exc' = "StoreError" /\ off' = off
    /\ UNCHANGED <<hashseed, BATCH_SIZE, all_data, lineno, all_entity, relationship,
                   grouped_keys, grouped_rels, warned, job, edges>>

\* batch_run returns (empty data, or range exhausted); for k in all_entity moves on
NextEntity ==
    /\ pc = "entity"
    /\ off >= Len(all_entity[Labels[job]])
    /\ off' = 0
    /\ IF job < Len(Labels)
       THEN job' = job + 1 /\ pc' = pc
       ELSE job' = 1 /\ pc' = "group"
    /\ UNCHANGED <<exc, hashseed, BATCH_SIZE, all_data, lineno, all_entity, relationship,
                   grouped_keys, grouped_rels, warned, nodes, edges, calls>>

\* create_relationship_batch: the grouping loop
GroupRelations ==
    /\ pc = "group"
    /\ grouped_keys' = GroupKeys(relationship)
    /\ grouped_rels' = [key \in Range(GroupKeys(relationship)) |-> GroupOf(relationship, key)]
    /\ pc' = IF GroupKeys(relationship) = <<>> THEN "done" ELSE "relation"
    /\ job' = 1
    /\ off' = 0
    /\ UNCHANGED <<exc, hashseed, BATCH_SIZE, all_data, lineno, all_entity, relationship,
                   warned, nodes, edges, calls>>

\* one graph.run of batch_run, called by create_relationship_batch
ImportRelationBatch ==
    /\ pc = "relation"
    /\ LET key == grouped_keys[job]
           data_list == grouped_rels[key]
       IN /\ off < Len(data_list)
          /\ \E ok \in BOOLEAN :
                /\ calls' = Append(calls, [kind |-> "relation", target |-> key,
                                           batch |-> Batch(data_list, off), ok |-> ok])
                /\ edges' = IF ok THEN RunRelationQuery(edges, nodes, key, Batch(data_list, off))
                            ELSE edges
                /\ IF ok \/ batch_run_on_error # "raise"
                   THEN off' = off + BATCH_SIZE /\ UNCHANGED <<pc, exc>>
                   ELSE pc' = "aborted" /\ exc' = "StoreError" /\ off' = off
    /\ UNCHANGED <<hashseed, BATCH_SIZE, all_data, lineno, all_entity, relationship,
                   grouped_keys, grouped_rels, warned, job, nodes>>

\* batch_run returns; for ... in grouped_rels.items() moves on
NextRelation ==
    /\ pc = "relation"
    /\ off >= Len(grouped_rels[grouped_keys[job]])
    /\ off' = 0
    /\ IF job < Len(grouped_keys)
       THEN job' = job + 1 /\ pc' = pc
       ELSE job' = job /\ pc' = "done"
    /\ UNCHANGED <<exc, hashseed, BATCH_SIZE, all_data, lineno, all_entity, relationship,
                   grouped_keys, grouped_rels, warned, nodes, edges, calls>>

Next ==
    \/ ClearDatabase
    \/ ParseLine
    \/ Deduplicate
    \/ CreateIndex
    \/ ImportEntityBatch
    \/ NextEntity
    \/ GroupRelations
    \/ ImportRelationBatch
    \/ NextRelation

Spec == Init /\ [][Next]_vars

\* ------------------------------------------------------------ properties
Ceil(n, w) == (n + w - 1) \div w

NoRepeat(s) == \A i, j \in 1..Len(s) : s[i] = s[j] => i = j

\* the batches of the entity statements for category c among the first n calls
EntityBatches(c, n) ==
    LET sel == SelectSeq(SubSeq(calls, 1, n), LAMBDA e : e.kind = "entity" /\ e.target = c)
    IN [i \in 1..Len(sel) |-> sel[i].batch]

\* the batches of the relation statements for group key among all calls
RelationBatches(key) ==
    LET sel == SelectSeq(calls, LAMBDA e : e.kind = "relation" /\ e.target = key)
    IN [i \in 1..Len(sel) |-> sel[i].batch]

Aggregated == pc \in {"index", "entity", "group", "relation", "done"}

\* the lines of the input that are parsed into a record, in input order
ValidLines == SelectSeq(all_data, LAMBDA l : LineOutcome(l) = "ok")

\* C1: no relation batch is submitted until every entity batch of every
\* category (Disease included) has been submitted and has succeeded; once an
\* entity batch has failed no relation batch is submitted.
C1_EntitiesBeforeRelations ==
    \A j \in 1..Len(calls) :
        calls[j].kind = "relation" =>
            /\ \A i \in 1..Len(calls) : calls[i].kind = "entity" => (i < j /\ calls[i].ok)
            /\ \A c \in LabelSet : Flatten(EntityBatches(c, j - 1)) = all_entity[c]

C1_Witness ==
    /\ \E j \in 1..Len(calls) : calls[j].kind = "relation"
    /\ Len(EntityBatches("Disease", Len(calls))) >= 2
    /\ Len(EntityBatches("Drug", Len(calls))) >= 1

\* the jobs batch_run has finished: entity categories and relation groups
DoneEntityJobs ==
    IF pc \in {"group", "relation", "done"} THEN 1..Len(Labels)
    ELSE IF pc = "entity"
         THEN {m \in 1..Len(Labels) : m < job \/ (m = job /\ off >= Len(all_entity[Labels[m]]))}
         ELSE {}

DoneRelationJobs ==
    IF pc = "done" THEN 1..Len(grouped_keys)
    ELSE IF pc = "relation"
         THEN {m \in 1..Len(grouped_keys) :
                  m < job \/ (m = job /\ off >= Len(grouped_rels[grouped_keys[m]]))}
         ELSE {}

Partitioned(data, batches) ==
    /\ Len(batches) = Ceil(Len(data), BATCH_SIZE)
    /\ \A i \in 1..Len(batches) : Len(batches[i]) >= 1 /\ Len(batches[i]) <= BATCH_SIZE
    /\ Flatten(batches) = data

\* C2: for a list of N items and width W, batch_run issues ceil(N/W)
\* submissions (none when N = 0), each of 1..W items, whose concatenation in
\* submission order is the input list.
C2_BatchPartition ==
    /\ \A m \in DoneEntityJobs :
          Partitioned(all_entity[Labels[m]], EntityBatches(Labels[m], Len(calls)))
    /\ \A m \in DoneRelationJobs :
          Partitioned(grouped_rels[grouped_keys[m]], RelationBatches(grouped_keys[m]))

C2_Witness ==
    /\ BATCH_SIZE = 2
    /\ \E m \in DoneEntityJobs :
          Len(all_entity[Labels[m]]) = 3 /\ Len(EntityBatches(Labels[m], Len(calls))) = 2
    /\ \E m \in DoneEntityJobs : all_entity[Labels[m]] = <<>>
    /\ \E m \in DoneRelationJobs : Len(grouped_rels[grouped_keys[m]]) = 1

\* the 5-tuples rebuilt from the groups, one per (key, position)
Rebuilt ==
    UNION {{<<key[1], grouped_rels[key][i].n1, key[2], key[3], grouped_rels[key][i].n2>> :
               i \in 1..Len(grouped_rels[key])} : key \in Range(grouped_keys)}

\* C3: the grouping is a partition of the deduplicated relation set: every
\* relation is in exactly one group, the one keyed by its (source category,
\* label, target category), and the tuples rebuilt from the groups are the
\* relation set, nothing lost, added or repeated.
C3_GroupingPartition ==
    pc \in {"relation", "done"} =>
        /\ NoRepeat(grouped_keys)
        /\ DOMAIN grouped_rels = Range(grouped_keys)
        /\ \A r \in Range(relationship) :
              /\ <<r[1], r[3], r[4]>> \in Range(grouped_keys)
              /\ Cardinality({p \in {<<key, i>> : key \in Range(grouped_keys), i \in 1..Len(relationship)} :
                                 /\ p[2] <= Len(grouped_rels[p[1]])
                                 /\ <<p[1][1], grouped_rels[p[1]][p[2]].n1, p[1][2], p[1][3],
                                      grouped_rels[p[1]][p[2]].n2>> = r}) = 1
              /\ [n1 |-> r[2], n2 |-> r[5]] \in Range(grouped_rels[<<r[1], r[3], r[4]>>])
        /\ Rebuilt = Range(relationship)

C3_Witness ==
    /\ pc = "done"
    /\ Len(grouped_keys) >= 3
    /\ \E key \in Range(grouped_keys) : Len(grouped_rels[key]) >= 2
    /\ \E k1, k2 \in Range(grouped_keys) : k1 # k2 /\ k1[1] = k2[1] /\ k1[3] = k2[3]

\* the names of the entity collection of category c
EntityNames(c) ==
    IF c = "Disease" THEN {all_entity[c][i].name : i \in 1..Len(all_entity[c])}
    ELSE Range(all_entity[c])

\* the drug-detail entries of the records parsed so far
ParsedDetails ==
    UNION {Range(Get(all_data[i].fields, "drug_detail", <<>>)) :
              i \in {n \in 1..(lineno - 1) : LineOutcome(all_data[n]) = "ok"}}

\* C4: an entry "A,B" of exactly two comma-separated parts adds A to the
\* Manufacturer category, B to the Drug category and the relation
\* (Manufacturer, A, produces, Drug, B); any other entry adds nothing.
C4_DrugDetail ==
    pc = "parse" =>
        /\ \A detail \in ParsedDetails :
              (HasComma(detail) /\ Len(SplitComma(detail)) = 2) =>
                  LET A == SplitComma(detail)[1]
                      B == SplitComma(detail)[2]
                  IN /\ A \in EntityNames("Manufacturer")
                     /\ B \in EntityNames("Drug")
                     /\ <<"Manufacturer", A, "produces", "Drug", B>> \in Range(relationship)
        /\ \A r \in Range(relationship) :
              r[3] = "produces" =>
                  \E detail \in ParsedDetails :
                      /\ Len(SplitComma(detail)) = 2
                      /\ r = <<"Manufacturer", SplitComma(detail)[1], "produces", "Drug",
                               SplitComma(detail)[2]>>

\* C5: when the relation load begins, both endpoints of every relation of
\* the deduplicated set are in the entity collection loaded for their
\* category, the comorbidity relation included.
C5_EndpointsLoaded ==
    pc \in {"group", "relation"} =>
        \A r \in Range(relationship) :
            r[2] \in EntityNames(r[1]) /\ r[5] \in EntityNames(r[4])

\* C6: no line aborts the run: a short line, an unparsable line and a line
\* that parses to something other than a well-formed record are dropped and
\* parsing goes on to the next line.
C6_NoLineAborts ==
    /\ exc \notin {"AttributeError", "TypeError", "IndexError"}
    /\ pc \in {"parse", "aborted"} =>
           Len(all_entity["Disease"]) =
               Len(SelectSeq(SubSeq(all_data, 1, lineno - 1), LAMBDA l : LineOutcome(l) = "ok"))

\* C7 as stated: after aggregation every attribute-less category holds each
\* name at most once and the Disease category holds at most one record per
\* disease name.
C7_UniqueByName ==
    Aggregated =>
        /\ \A c \in LabelSet \ {"Disease"} : NoRepeat(all_entity[c])
        /\ \A i, j \in 1..Len(all_entity["Disease"]) :
              all_entity["Disease"][i].name = all_entity["Disease"][j].name => i = j

\* C7 amended: after aggregation every attribute-less category holds each
\* name at most once, the names being those the parsed records contributed;
\* the Disease category holds one record per parsed record, in input order,
\* records of the same name included.
C7_Amended ==
    Aggregated =>
        LET valid == ValidLines
            contributed == Flatten([i \in 1..Len(valid) |-> RecordEntities(valid[i])])
        IN /\ \A c \in LabelSet \ {"Disease"} :
                 /\ NoRepeat(all_entity[c])
                 /\ Range(all_entity[c]) = Range(ItemsOf(contributed, c))
           /\ Len(all_entity["Disease"]) = Len(valid)
           /\ \A i \in 1..Len(valid) :
                 /\ all_entity["Disease"][i].name = Get(valid[i].fields, "name", <<>>)
                 /\ \A a \in AttrKeys : all_entity["Disease"][i][a] = Get(valid[i].fields, a, <<>>)

C7_Witness ==
    /\ Aggregated
    /\ Len(ValidLines) = 2
    /\ Get(ValidLines[1].fields, "name", <<>>) = Get(ValidLines[2].fields, "name", <<>>)
    /\ Get(ValidLines[1].fields, "desc", <<>>) # Get(ValidLines[2].fields, "desc", <<>>)
    /\ \E i \in 1..2 : Len(Get(ValidLines[i].fields, "symptom", <<>>)) = 2
    /\ Len(all_entity["Symptom"]) = 1

\* the database has been cleared
Cleared == Len(calls) >= 1 /\ calls[1].ok

\* C8: during and after the load the store holds at most one node per
\* (category, name) and at most one edge per (source node, label, target node).
C8_NoDuplicates ==
    Cleared =>
        /\ \A i, j \in 1..Len(nodes) :
              (nodes[i].label = nodes[j].label /\ nodes[i].name = nodes[j].name) => i = j
        /\ \A i, j \in 1..Len(edges) :
              (edges[i].src = edges[j].src /\ edges[i].rel = edges[j].rel
                   /\ edges[i].dst = edges[j].dst) => i = j

C8_Witness ==
    /\ pc = "done"
    /\ Len(all_entity["Disease"]) = 2
    /\ all_entity["Disease"][1].name = all_entity["Disease"][2].name
    /\ Len(EntityBatches("Disease", Len(calls))) = 2
    /\ Len(edges) >= 2

\* C9: the constraint statement of every category is issued before any
\* entity or relation batch, and a failing constraint statement does not stop
\* the run: the remaining constraint statements and the batches still follow.
C9_ConstraintsFirst ==
    /\ \A j \in 1..Len(calls) :
          calls[j].kind \in {"entity", "relation"} =>
              \A c \in LabelSet :
                  \E i \in 1..(j - 1) : calls[i].kind = "constraint" /\ calls[i].target = c
    /\ (pc = "aborted" /\ calls # <<>>) => calls[Len(calls)].kind # "constraint"
    /\ pc \in {"entity", "group", "relation", "done"} =>
          LET sel == SelectSeq(calls, LAMBDA e : e.kind = "constraint")
          IN [i \in 1..Len(sel) |-> sel[i].target] = Labels
    /\ pc = "done" =>
          /\ \A c \in LabelSet : Flatten(EntityBatches(c, Len(calls))) = all_entity[c]
          /\ \A key \in Range(grouped_keys) : Flatten(RelationBatches(key)) = grouped_rels[key]

C9_Witness ==
    /\ pc = "done"
    /\ warned
    /\ \E j \in 1..Len(calls) : calls[j].kind = "relation"

\* the last line of the input that is parsed into a record of this name
LastLineOf(name) ==
    ValidLines[CHOOSE i \in 1..Len(ValidLines) :
                   /\ Get(ValidLines[i].fields, "name", <<>>) = name
                   /\ \A j \in (i + 1)..Len(ValidLines) :
                         Get(ValidLines[j].fields, "name", <<>>) # name]

\* C10: after a successful load the store holds exactly one Disease node
\* for a name several records carry, and each of its six attributes has the
\* value of the last of these records in input order.
C10_LastWriteWins ==
    pc = "done" =>
        \A n \in 1..Len(ValidLines) :
            LET name == Get(ValidLines[n].fields, "name", <<>>)
                found == {i \in 1..Len(nodes) : nodes[i].label = "Disease" /\ nodes[i].name = name}
            IN /\ Cardinality(found) = 1
               /\ \A i \in found : \A a \in AttrKeys :
                     /\ a \in DOMAIN nodes[i].attrs
                     /\ nodes[i].attrs[a] = Get(LastLineOf(name).fields, a, <<>>)

C10_Witness ==
    /\ pc = "done"
    /\ Len(ValidLines) = 2
    /\ Get(ValidLines[1].fields, "name", <<>>) = Get(ValidLines[2].fields, "name", <<>>)
    /\ Get(ValidLines[1].fields, "desc", <<>>) # Get(ValidLines[2].fields, "desc", <<>>)
    /\ BATCH_SIZE = 1

====
